---- MODULE Spec2Model ----
(***************************************************************************)
(* Model of the gimbal control mapper (src/src/gimbal.rs), its             *)
(* configuration (src/src/config.rs) and the application loop that drives  *)
(* it (src/src/main.rs).                                                   *)
(*                                                                         *)
(* Numbers.  The program computes in f32/f64.  A float is modelled as a    *)
(* record [k, v]: k = "fin" with v the value in thousandths (fixed point), *)
(* k = "inf" with v the sign, or k = "nan".  The values the model draws    *)
(* for the control mapper are chosen so that every product of finite       *)
(* values is exact in thousandths.  The kinematics multiplies by pi/180    *)
(* and by sines and cosines; there a product or quotient is rounded to the *)
(* nearest thousandth, the same way for both signs, as IEEE rounding is.   *)
(* Overflow of finite values is not modelled.  -0.0 and 0.0 are the same   *)
(* value (they compare equal in the program).                              *)
(*                                                                         *)
(* Not modelled: App.debug_mode (toggled by 't', read only to choose the   *)
(* view drawn), App.gamepads (per-device name, connection flag, activity   *)
(* time and a copy of the samples, read only by the debug view).  The      *)
(* drawing is modelled on its own (SpecSolve, SpecProject), not as a part  *)
(* of the application loop: it reads the state and changes none of it.     *)
(*                                                                         *)
(* held records which of the mapped keys are physically down (the history  *)
(* of the key events); only SpecKeys keeps it.  plate is the               *)
(* upper_plate_points vector the gimbal view builds, point and screen are  *)
(* an argument and the result of the view's projector.                     *)
(***************************************************************************)
EXTENDS Integers, Sequences, FiniteSets, TLC

VARIABLES config, state, input_state, running, pc, held, plate, point, screen

vars == <<config, state, input_state, running, pc, held, plate, point, screen>>

----------------------------------------------------------------------------
(* Floating point values *)

Milli == 1000

Fin(n) == [k |-> "fin", v |-> n]
NaN == [k |-> "nan", v |-> 0]
PInf == [k |-> "inf", v |-> 1]
NInf == [k |-> "inf", v |-> -1]
Zero == Fin(0)
One == Fin(Milli)

Sign(n) == IF n > 0 THEN 1 ELSE IF n < 0 THEN -1 ELSE 0

IsNaN(x) == x.k = "nan"
IsFinite(x) == x.k = "fin"

FNeg(x) == IF x.k = "nan" THEN NaN ELSE [k |-> x.k, v |-> -x.v]

FAdd(x, y) ==
    IF x.k = "nan" \/ y.k = "nan" THEN NaN
    ELSE IF x.k = "inf" /\ y.k = "inf" THEN (IF x.v = y.v THEN x ELSE NaN)
    ELSE IF x.k = "inf" THEN x
    ELSE IF y.k = "inf" THEN y
    ELSE Fin(x.v + y.v)

\* n / d rounded to the nearest integer, halves away from zero (d > 0)
RoundDiv(n, d) ==
    IF n >= 0 THEN (2 * n + d) \div (2 * d) ELSE -((2 * (-n) + d) \div (2 * d))

FSub(x, y) == FAdd(x, FNeg(y))

FMul(x, y) ==
    IF x.k = "nan" \/ y.k = "nan" THEN NaN
    ELSE IF x.k = "inf" \/ y.k = "inf"
         THEN (IF Sign(x.v) * Sign(y.v) = 0 THEN NaN
               ELSE [k |-> "inf", v |-> Sign(x.v) * Sign(y.v)])
    ELSE Fin(RoundDiv(x.v * y.v, Milli))

\* x / y: a finite x over 0 is an infinity, 0 / 0 and inf / inf are NaN
FDiv(x, y) ==
    IF x.k = "nan" \/ y.k = "nan" THEN NaN
    ELSE IF x.k = "inf"
         THEN (IF y.k = "inf" THEN NaN
               ELSE [k |-> "inf", v |-> x.v * (IF y.v < 0 THEN -1 ELSE 1)])
    ELSE IF y.k = "inf" THEN Zero
    ELSE IF y.v = 0
         THEN (IF x.v = 0 THEN NaN ELSE [k |-> "inf", v |-> Sign(x.v)])
    ELSE Fin(RoundDiv(x.v * Milli * Sign(y.v), y.v * Sign(y.v)))

\* x < y on floats: false when either side is NaN
FLt(x, y) ==
    IF x.k = "nan" \/ y.k = "nan" THEN FALSE
    ELSE IF x.k = "inf" /\ y.k = "inf" THEN x.v < y.v
    ELSE IF x.k = "inf" THEN x.v < 0
    ELSE IF y.k = "inf" THEN y.v > 0
    ELSE x.v < y.v

FLe(x, y) ==
    IF x.k = "nan" \/ y.k = "nan" THEN FALSE
    ELSE FLt(x, y) \/ x = y

FAbs(x) == IF x.k = "nan" THEN NaN ELSE [k |-> x.k, v |-> IF x.v < 0 THEN -x.v ELSE x.v]

\* f64::clamp: panics when min > max or either bound is NaN
ClampPanics(min, max) == ~FLe(min, max)

Clamp(x, min, max) ==
    LET x1 == IF FLt(x, min) THEN min ELSE x
    IN  IF FLt(max, x1) THEN max ELSE x1

----------------------------------------------------------------------------
(* Axis names and gilrs::Axis *)

None == [some |-> FALSE, val |-> "None"]
Some(a) == [some |-> TRUE, val |-> a]

\* faulty variant: an unknown name falls back to a default axis instead of None
parse_axis_name_DefaultsUnknown(name) ==
    CASE name = "LeftStickX" -> Some("Axis_LeftStickX")
      [] name = "LeftStickY" -> Some("Axis_LeftStickY")
      [] name = "LeftZ" -> Some("Axis_LeftZ")
      [] name = "RightStickX" -> Some("Axis_RightStickX")
      [] name = "RightStickY" -> Some("Axis_RightStickY")
      [] name = "RightZ" -> Some("Axis_RightZ")
      [] name = "DPadX" -> Some("Axis_DPadX")
      [] name = "DPadY" -> Some("Axis_DPadY")
      [] OTHER -> Some("Axis_LeftStickX")

parse_axis_name(name) ==
    CASE name = "LeftStickX" -> Some("Axis_LeftStickX")
      [] name = "LeftStickY" -> Some("Axis_LeftStickY")
      [] name = "LeftZ" -> Some("Axis_LeftZ")
      [] name = "RightStickX" -> Some("Axis_RightStickX")
      [] name = "RightStickY" -> Some("Axis_RightStickY")
      [] name = "RightZ" -> Some("Axis_RightZ")
      [] name = "DPadX" -> Some("Axis_DPadX")
      [] name = "DPadY" -> Some("Axis_DPadY")
      [] OTHER -> None

\* HashMap::get on input.axes
AxesGet(axes, axis) ==
    IF axis \in DOMAIN axes THEN Some(axes[axis]) ELSE None

\* HashMap::insert
MapInsert(m, key, value) ==
    [x \in (DOMAIN m) \cup {key} |-> IF x = key THEN value ELSE m[x]]

EmptyMap == [x \in {} |-> Zero]

----------------------------------------------------------------------------
(* Configuration *)

SignificanceThreshold == 10

DefaultConfig ==
    [gimbal |->
        [max_pitch |-> Fin(20 * Milli), max_roll |-> Fin(20 * Milli),
         max_lift |-> Fin(15 * Milli),
         pitch_sensitivity |-> One, roll_sensitivity |-> One,
         lift_sensitivity |-> One],
     controls |->
        [keyboard_enabled |-> TRUE,
         keyboard_step |-> Fin(100),
         joystick |->
            [enabled |-> TRUE,
             pitch_axis |-> "RightStickY",
             roll_axis |-> "RightStickX",
             lift_axis |-> "RightZ",
             invert_pitch |-> FALSE,
             invert_roll |-> FALSE,
             invert_lift |-> FALSE,
             fallback_axes |-> <<"LeftStickY", "LeftStickX", "LeftZ",
                                 "Tz", "Ty", "Tx">>]],
     debug |->
        [enabled |-> FALSE, show_all_axes |-> TRUE,
         show_button_states |-> TRUE, log_input_values |-> FALSE]]

----------------------------------------------------------------------------
(* GimbalController *)

GimbalStateDefault == [pitch |-> Zero, roll |-> Zero, lift |-> Zero]

InputStateDefault ==
    [axes |-> EmptyMap, buttons |-> [x \in {} |-> FALSE],
     keyboard_pitch |-> Zero, keyboard_roll |-> Zero, keyboard_lift |-> Zero]

\* faulty variant: the fallback loop takes the first entry that has a sample, without
\* the significance test
RECURSIVE FallbackValue_FirstPresent(_, _, _)
FallbackValue_FirstPresent(fallback_axes, axes, i) ==
    IF i > Len(fallback_axes) THEN Zero
    ELSE LET parsed == parse_axis_name(fallback_axes[i])
             got == IF parsed.some THEN AxesGet(axes, parsed.val) ELSE None
         IN  IF got.some
             THEN got.val
             ELSE FallbackValue_FirstPresent(fallback_axes, axes, i + 1)

\* the fallback loop of get_joystick_axis_value, from entry i on
RECURSIVE FallbackValue(_, _, _)
FallbackValue(fallback_axes, axes, i) ==
    IF i > Len(fallback_axes) THEN Zero
    ELSE LET parsed == parse_axis_name(fallback_axes[i])
             got == IF parsed.some THEN AxesGet(axes, parsed.val) ELSE None
         IN  IF got.some /\ FLt(Fin(SignificanceThreshold), FAbs(got.val))
             THEN got.val
             ELSE FallbackValue(fallback_axes, axes, i + 1)

\* faulty variant: the primary axis is used only when its sample is significant
get_joystick_axis_value_SkipsSmallPrimary(cfg, input, axis_name) ==
    LET parsed == parse_axis_name(axis_name)
        got == IF parsed.some THEN AxesGet(input.axes, parsed.val) ELSE None
    IN  IF got.some /\ FLt(Fin(SignificanceThreshold), FAbs(got.val)) THEN got.val
        ELSE FallbackValue(cfg.controls.joystick.fallback_axes, input.axes, 1)

\* faulty variant: a significant fallback axis takes precedence over the primary
get_joystick_axis_value_FallbackFirst(cfg, input, axis_name) ==
    LET parsed == parse_axis_name(axis_name)
        got == IF parsed.some THEN AxesGet(input.axes, parsed.val) ELSE None
        fb == FallbackValue(cfg.controls.joystick.fallback_axes, input.axes, 1)
    IN  IF fb # Zero THEN fb ELSE IF got.some THEN got.val ELSE Zero

\* faulty variant: the fallback list serves the pitch channel only
get_joystick_axis_value_PitchOnlyFallback(cfg, input, axis_name) ==
    LET parsed == parse_axis_name(axis_name)
        got == IF parsed.some THEN AxesGet(input.axes, parsed.val) ELSE None
    IN  IF got.some THEN got.val
        ELSE IF axis_name = cfg.controls.joystick.pitch_axis
             THEN FallbackValue(cfg.controls.joystick.fallback_axes, input.axes, 1)
             ELSE Zero

get_joystick_axis_value(cfg, input, axis_name) ==
    LET parsed == parse_axis_name(axis_name)
        got == IF parsed.some THEN AxesGet(input.axes, parsed.val) ELSE None
    IN  IF got.some THEN got.val
        ELSE FallbackValue(cfg.controls.joystick.fallback_axes, input.axes, 1)

Invert(flag) == IF flag THEN Fin(-Milli) ELSE One

\* faulty variant: the inversion is applied to the sum of joystick and keyboard
RawPitch_InvertsSum(cfg, input) ==
    LET j == IF cfg.controls.joystick.enabled
             THEN get_joystick_axis_value(cfg, input, cfg.controls.joystick.pitch_axis)
             ELSE Zero
        sum == IF cfg.controls.keyboard_enabled THEN FAdd(j, input.keyboard_pitch) ELSE j
    IN  IF cfg.controls.joystick.enabled
        THEN FMul(sum, Invert(cfg.controls.joystick.invert_pitch))
        ELSE sum

\* faulty variant: a held key overrides the joystick instead of adding to it
RawRoll_KeyboardOverrides(cfg, input) ==
    LET j == IF cfg.controls.joystick.enabled
             THEN FAdd(Zero, FMul(get_joystick_axis_value(cfg, input, cfg.controls.joystick.roll_axis),
                                  Invert(cfg.controls.joystick.invert_roll)))
             ELSE Zero
    IN  IF cfg.controls.keyboard_enabled /\ input.keyboard_roll # Zero
        THEN input.keyboard_roll ELSE j

\* the raw per-channel sums of update, before sensitivity and limits
RawPitch(cfg, input) ==
    LET j == IF cfg.controls.joystick.enabled
             THEN FAdd(Zero, FMul(get_joystick_axis_value(cfg, input, cfg.controls.joystick.pitch_axis),
                                  Invert(cfg.controls.joystick.invert_pitch)))
             ELSE Zero
    IN  IF cfg.controls.keyboard_enabled THEN FAdd(j, input.keyboard_pitch) ELSE j

RawRoll(cfg, input) ==
    LET j == IF cfg.controls.joystick.enabled
             THEN FAdd(Zero, FMul(get_joystick_axis_value(cfg, input, cfg.controls.joystick.roll_axis),
                                  Invert(cfg.controls.joystick.invert_roll)))
             ELSE Zero
    IN  IF cfg.controls.keyboard_enabled THEN FAdd(j, input.keyboard_roll) ELSE j

\* faulty variant: a pressed South button raises lift by the keyboard step
RawLift_SouthButtonLifts(cfg, input) ==
    LET j == IF cfg.controls.joystick.enabled
             THEN FAdd(Zero, FMul(get_joystick_axis_value(cfg, input, cfg.controls.joystick.lift_axis),
                                  Invert(cfg.controls.joystick.invert_lift)))
             ELSE Zero
        b == IF "South" \in DOMAIN input.buttons /\ input.buttons["South"]
             THEN cfg.controls.keyboard_step ELSE Zero
    IN  IF cfg.controls.keyboard_enabled THEN FAdd(FAdd(j, input.keyboard_lift), b)
        ELSE FAdd(j, b)

RawLift(cfg, input) ==
    LET j == IF cfg.controls.joystick.enabled
             THEN FAdd(Zero, FMul(get_joystick_axis_value(cfg, input, cfg.controls.joystick.lift_axis),
                                  Invert(cfg.controls.joystick.invert_lift)))
             ELSE Zero
    IN  IF cfg.controls.keyboard_enabled THEN FAdd(j, input.keyboard_lift) ELSE j

\* faulty variant: the lift channel is integrated onto the stored demand
update_AccumulatesLift(cfg, st, input) ==
    LET g == cfg.gimbal
        p == FMul(FMul(RawPitch(cfg, input), g.pitch_sensitivity), g.max_pitch)
        r == FMul(FMul(RawRoll(cfg, input), g.roll_sensitivity), g.max_roll)
        l == FAdd(st.lift, FMul(FMul(RawLift(cfg, input), g.lift_sensitivity), g.max_lift))
    IN  IF \/ ClampPanics(FNeg(g.max_pitch), g.max_pitch)
           \/ ClampPanics(FNeg(g.max_roll), g.max_roll)
           \/ ClampPanics(FNeg(g.max_lift), g.max_lift)
        THEN [panicked |-> TRUE, state |-> st]
        ELSE [panicked |-> FALSE,
              state |-> [pitch |-> Clamp(p, FNeg(g.max_pitch), g.max_pitch),
                         roll |-> Clamp(r, FNeg(g.max_roll), g.max_roll),
                         lift |-> Clamp(l, FNeg(g.max_lift), g.max_lift)]]

\* GimbalController::update on controller state st: the three assignments run
\* in order, and a panicking clamp leaves the later channels unwritten
update(cfg, st, input) ==
    LET g == cfg.gimbal
        p == FMul(FMul(RawPitch(cfg, input), g.pitch_sensitivity), g.max_pitch)
        r == FMul(FMul(RawRoll(cfg, input), g.roll_sensitivity), g.max_roll)
        l == FMul(FMul(RawLift(cfg, input), g.lift_sensitivity), g.max_lift)
    IN  IF ClampPanics(FNeg(g.max_pitch), g.max_pitch)
        THEN [panicked |-> TRUE, state |-> st]
        ELSE LET s1 == [st EXCEPT !.pitch = Clamp(p, FNeg(g.max_pitch), g.max_pitch)]
             IN  IF ClampPanics(FNeg(g.max_roll), g.max_roll)
                 THEN [panicked |-> TRUE, state |-> s1]
                 ELSE LET s2 == [s1 EXCEPT !.roll = Clamp(r, FNeg(g.max_roll), g.max_roll)]
                      IN  IF ClampPanics(FNeg(g.max_lift), g.max_lift)
                          THEN [panicked |-> TRUE, state |-> s2]
                          ELSE [panicked |-> FALSE,
                                state |-> [s2 EXCEPT !.lift = Clamp(l, FNeg(g.max_lift), g.max_lift)]]


\* u8/char::to_ascii_lowercase on the key characters the model uses
to_ascii_lowercase(c) ==
    CASE c = "W" -> "w"
      [] c = "S" -> "s"
      [] c = "A" -> "a"
      [] c = "D" -> "d"
      [] c = "R" -> "r"
      [] c = "F" -> "f"
      [] c = "Q" -> "q"
      [] c = "T" -> "t"
      [] c = "X" -> "x"
      [] OTHER -> c

\* faulty variant: the key handler does not look at keyboard_enabled
handle_keyboard_IgnoresEnabled(cfg, input, key, pressed) ==
    LET step == IF pressed THEN cfg.controls.keyboard_step ELSE Zero
        k == to_ascii_lowercase(key)
    IN  CASE k = "w" -> [input EXCEPT !.keyboard_pitch = step]
          [] k = "s" -> [input EXCEPT !.keyboard_pitch = FNeg(step)]
          [] k = "a" -> [input EXCEPT !.keyboard_roll = FNeg(step)]
          [] k = "d" -> [input EXCEPT !.keyboard_roll = step]
          [] k = "r" -> [input EXCEPT !.keyboard_lift = step]
          [] k = "f" -> [input EXCEPT !.keyboard_lift = FNeg(step)]
          [] OTHER -> input

\* GimbalController::handle_keyboard: the input state it leaves
handle_keyboard(cfg, input, key, pressed) ==
    IF ~cfg.controls.keyboard_enabled THEN input
    ELSE LET step == IF pressed THEN cfg.controls.keyboard_step ELSE Zero
             k == to_ascii_lowercase(key)
         IN  CASE k = "w" -> [input EXCEPT !.keyboard_pitch = step]
               [] k = "s" -> [input EXCEPT !.keyboard_pitch = FNeg(step)]
               [] k = "a" -> [input EXCEPT !.keyboard_roll = FNeg(step)]
               [] k = "d" -> [input EXCEPT !.keyboard_roll = step]
               [] k = "r" -> [input EXCEPT !.keyboard_lift = step]
               [] k = "f" -> [input EXCEPT !.keyboard_lift = FNeg(step)]
               [] OTHER -> input

\* faulty variant: reset levels the plate but keeps its lift
reset_KeepsLift(st) == [GimbalStateDefault EXCEPT !.lift = st.lift]

\* GimbalController::reset
reset(st) == GimbalStateDefault

----------------------------------------------------------------------------
(* Configuration file *)

Ok(cfg) == [ok |-> TRUE, config |-> cfg]
Err(cfg) == [ok |-> FALSE, config |-> cfg]

\* Config::load_or_create on a file [exists, parses, writable, content]:
\* content is what toml::from_str deserializes when the text parses into the
\* schema; a missing file is created with the defaults, if it can be written
load_or_create(file) ==
    IF file.exists
    THEN (IF file.parses THEN Ok(file.content) ELSE Err(file.content))
    ELSE (IF file.writable THEN Ok(DefaultConfig) ELSE Err(DefaultConfig))

----------------------------------------------------------------------------
(* Application *)

Char(c) == [code |-> "Char", c |-> c]
Esc == [code |-> "Esc", c |-> ""]
Enter == [code |-> "Enter", c |-> ""]

\* faulty variant: a disconnecting gamepad takes its axis samples with it
ProcessEvent_DisconnectClears(input, ev) ==
    CASE ev.type = "ButtonPressed" ->
             [input EXCEPT !.buttons = MapInsert(input.buttons, ev.button, TRUE)]
      [] ev.type = "ButtonReleased" ->
             [input EXCEPT !.buttons = MapInsert(input.buttons, ev.button, FALSE)]
      [] ev.type = "AxisChanged" ->
             [input EXCEPT !.axes = MapInsert(input.axes, ev.axis, ev.value)]
      [] ev.type = "Disconnected" -> [input EXCEPT !.axes = EmptyMap]
      [] OTHER -> input

\* one iteration of the event loop of App::update: the input state it leaves
ProcessEvent(input, ev) ==
    CASE ev.type = "ButtonPressed" ->
             [input EXCEPT !.buttons = MapInsert(input.buttons, ev.button, TRUE)]
      [] ev.type = "ButtonReleased" ->
             [input EXCEPT !.buttons = MapInsert(input.buttons, ev.button, FALSE)]
      [] ev.type = "AxisChanged" ->
             [input EXCEPT !.axes = MapInsert(input.axes, ev.axis, ev.value)]
      [] OTHER -> input

RECURSIVE ProcessEvents(_, _, _)
ProcessEvents(input, evs, i) ==
    IF i > Len(evs) THEN input
    ELSE ProcessEvents(ProcessEvent(input, evs[i]), evs, i + 1)

\* faulty variant: Enter leaves the loop as 'q' and Esc do
handle_key_EnterQuits(cfg, st, input, run, key) ==
    LET same == [state |-> st, input_state |-> input, running |-> run]
    IN  CASE key = Char("q") \/ key = Esc \/ key = Enter -> [same EXCEPT !.running = FALSE]
          [] key = Char("t") -> same
          [] key = Char("r") ->
               [same EXCEPT !.state = reset(st),
                            !.input_state = [input EXCEPT !.keyboard_pitch = Zero,
                                                          !.keyboard_roll = Zero,
                                                          !.keyboard_lift = Zero]]
          [] key.code = "Char" /\ key.c \notin {"q", "t", "r"} ->
               [same EXCEPT !.input_state = handle_keyboard(cfg, input, key.c, TRUE)]
          [] OTHER -> same

\* App::handle_key: the fields it leaves
handle_key(cfg, st, input, run, key) ==
    LET same == [state |-> st, input_state |-> input, running |-> run]
    IN  CASE key = Char("q") \/ key = Esc -> [same EXCEPT !.running = FALSE]
          [] key = Char("t") -> same
          [] key = Char("r") ->
               [same EXCEPT !.state = reset(st),
                            !.input_state = [input EXCEPT !.keyboard_pitch = Zero,
                                                          !.keyboard_roll = Zero,
                                                          !.keyboard_lift = Zero]]
          [] key.code = "Char" /\ key.c \notin {"q", "t", "r"} ->
               [same EXCEPT !.input_state = handle_keyboard(cfg, input, key.c, TRUE)]
          [] OTHER -> same

----------------------------------------------------------------------------
(* The running application: main's loop around App *)

MaxEventsPerTick == 1

AppAxes == {"Axis_LeftStickY"}
AppAxisValues == {Fin(-1000), Fin(5)}
AppButtons == {"South"}

\* gilrs events; the gamepad id of an event only selects the App.gamepads
\* entry, which is not modelled
GilrsEvents ==
    [type : {"AxisChanged"}, axis : AppAxes, value : AppAxisValues, button : {"South"}]
    \cup [type : {"ButtonPressed", "ButtonReleased"},
          axis : {"Axis_LeftStickY"}, value : {Zero}, button : AppButtons]
    \cup [type : {"Connected", "Disconnected"},
          axis : {"Axis_LeftStickY"}, value : {Zero}, button : {"South"}]

RECURSIVE SeqsUpTo(_, _)
SeqsUpTo(S, n) ==
    IF n = 0 THEN {<<>>}
    ELSE LET shorter == SeqsUpTo(S, n - 1)
         IN  shorter \cup {Append(q, e) : q \in shorter, e \in S}

\* the event batches gilrs.next_event can hand to one App::update
TickEvents == SeqsUpTo(GilrsEvents, MaxEventsPerTick)

KeyCodes == {Char(c) : c \in {"q", "t", "r", "w", "s", "a", "d", "f", "R", "x"}}
            \cup {Esc, Enter}

WithGimbal(cfg, field, value) == [cfg EXCEPT !.gimbal[field] = value]

\* contents of config.toml that toml::from_str accepts: every field present
\* and of its type; a float field takes any f64, also negative, inf and nan
ConfigContents ==
    {DefaultConfig,
     [DefaultConfig EXCEPT !.controls.keyboard_enabled = FALSE],
     [DefaultConfig EXCEPT !.controls.keyboard_enabled = FALSE,
                           !.gimbal.roll_sensitivity = PInf],
     WithGimbal(DefaultConfig, "max_roll", Fin(-20 * Milli)),
     WithGimbal(DefaultConfig, "max_lift", NaN)}

ConfigFiles ==
    {[exists |-> FALSE, parses |-> FALSE, writable |-> w, content |-> DefaultConfig] :
        w \in BOOLEAN}
    \cup {[exists |-> TRUE, parses |-> FALSE, writable |-> TRUE, content |-> DefaultConfig]}
    \cup {[exists |-> TRUE, parses |-> TRUE, writable |-> TRUE, content |-> c] :
            c \in ConfigContents}

\* no key is down
NoKeyHeld == held = {}

\* the gimbal view has not been drawn
NothingDrawn ==
    /\ plate = <<>>
    /\ point = <<Zero, Zero, Zero>>
    /\ screen = <<Zero, Zero>>

\* App::new after Config::load_or_create("config.toml"); main returns the
\* error when the load fails
Init ==
    \E file \in ConfigFiles :
        LET loaded == load_or_create(file)
        IN  /\ config = loaded.config
            /\ state = GimbalStateDefault
            /\ input_state = InputStateDefault
            /\ running = TRUE
            /\ pc = IF loaded.ok THEN "loop" ELSE "load_failed"
            /\ NoKeyHeld
            /\ NothingDrawn

(* pc = "loop": at the while condition.  While running is true the rest of *)
(* an iteration is optional (the poll may time out, the tick may not be    *)
(* due), so a key event and a tick are each a step from "loop" to "loop".  *)
(* pc = "tick": a key press has cleared running, and the iteration it      *)
(* happened in still runs its tick check before the condition is read.     *)

KeyEventKinds == {"Press", "Release", "Repeat"}

\* crossterm::event::poll returned true and event::read the key event
\* (kind, key): the match on key.kind in main
PollKeyEvent(kind, key) ==
    /\ pc = "loop" /\ running
    /\ LET pressed == handle_key(config, state, input_state, running, key)
       IN  CASE kind = "Press" ->
                    /\ state' = pressed.state
                    /\ input_state' = pressed.input_state
                    /\ running' = pressed.running
             [] kind = "Release" /\ key.code = "Char" ->
                    /\ input_state' = handle_keyboard(config, input_state, key.c, FALSE)
                    /\ UNCHANGED <<state, running>>
             [] OTHER -> UNCHANGED <<state, input_state, running>>
    /\ pc' = IF running' THEN "loop" ELSE "tick"
    /\ UNCHANGED config

PollKey ==
    /\ \E kind \in KeyEventKinds, key \in KeyCodes : PollKeyEvent(kind, key)
    /\ UNCHANGED <<held, plate, point, screen>>

\* the while condition fails
LoopExit ==
    /\ pc = "loop" /\ ~running
    /\ pc' = "done"
    /\ UNCHANGED <<config, state, input_state, running, held, plate, point, screen>>

\* last_tick.elapsed() >= tick_rate: App::update drains the gilrs events and
\* runs the controller; terminal.draw then ends the iteration
TickWith(evs) ==
    /\ (pc = "loop" /\ running) \/ pc = "tick"
    /\ LET input == ProcessEvents(input_state, evs, 1)
           out == update(config, state, input)
       IN  /\ input_state' = input
           /\ state' = out.state
           /\ pc' = IF out.panicked THEN "panicked" ELSE "loop"
    /\ UNCHANGED <<config, running>>

Tick ==
    /\ \E evs \in TickEvents : TickWith(evs)
    /\ UNCHANGED <<held, plate, point, screen>>

\* the tick interval has not elapsed; terminal.draw ends the iteration
TickSkip ==
    /\ pc = "tick"
    /\ pc' = "loop"
    /\ UNCHANGED <<config, state, input_state, running, held, plate, point, screen>>

Next == PollKey \/ LoopExit \/ Tick \/ TickSkip

Spec == Init /\ [][Next]_vars

----------------------------------------------------------------------------
(* The keyboard on its own: the loop of main fed with press, release and   *)
(* repeat events of the mapped keys, with the keys that are down recorded  *)
(* in held.  A key is named by its lower-case letter; the event carries    *)
(* the character typed, upper case when shift is down.                     *)

MappedKeys == {"w", "s", "a", "d", "r", "f"}

KeysChars == MappedKeys \cup {"R"}

KeysConfigs ==
    {DefaultConfig, [DefaultConfig EXCEPT !.controls.keyboard_enabled = FALSE]}

KeysInit ==
    /\ config \in KeysConfigs
    /\ state = GimbalStateDefault
    /\ input_state = InputStateDefault
    /\ running = TRUE
    /\ pc = "loop"
    /\ NoKeyHeld
    /\ NothingDrawn

\* the keys down after the event: a key goes down on its press and up on its
\* release
HeldAfter(keys, kind, c) ==
    CASE kind = "Press" -> keys \cup {to_ascii_lowercase(c)}
      [] kind = "Release" -> keys \ {to_ascii_lowercase(c)}
      [] OTHER -> keys

\* a key event the keyboard can send: only a key that is down is released or
\* repeats
KeysEvent ==
    /\ \E kind \in KeyEventKinds, c \in KeysChars :
          /\ kind \in {"Release", "Repeat"} => to_ascii_lowercase(c) \in held
          /\ PollKeyEvent(kind, Char(c))
          /\ held' = HeldAfter(held, kind, c)
    /\ UNCHANGED <<plate, point, screen>>

\* a tick with no gamepad event pending
KeysTick ==
    /\ TickWith(<<>>)
    /\ UNCHANGED <<held, plate, point, screen>>

KeysNext == KeysEvent \/ KeysTick

SpecKeys == KeysInit /\ [][KeysNext]_vars

----------------------------------------------------------------------------
(* The control mapper on its own: one call of GimbalController::update on a *)
(* configuration, an input snapshot and a stored demand the application can *)
(* hold                                                                     *)

MaxFallbacks == 2

MapOver(keys, values) == UNION {[d -> values] : d \in SUBSET keys}

\* update applied to the drawn configuration and input
MapperUpdate ==
    /\ pc = "mapper"
    /\ LET out == update(config, state, input_state)
       IN  /\ state' = out.state
           /\ pc' = IF out.panicked THEN "panicked" ELSE "updated"
    /\ UNCHANGED <<config, input_state, running, held, plate, point, screen>>

MapperNext == MapperUpdate

\* the demand the controller may hold before the call: the initial one, or the
\* one an earlier update of the same controller stored
PriorInputs ==
    {[InputStateDefault EXCEPT
        !.axes = [a \in {"Axis_RightStickY", "Axis_RightStickX", "Axis_LeftStickY"}
                    |-> Fin(-300)],
        !.keyboard_lift = Fin(100)]}

PriorStates(cfg) ==
    {GimbalStateDefault}
    \cup {update(cfg, GimbalStateDefault, i).state : i \in
            {i \in PriorInputs : ~update(cfg, GimbalStateDefault, i).panicked}}

MapperInit(configs, inputs) ==
    \E cfg \in configs, inp \in inputs :
        /\ config = cfg
        /\ input_state = inp
        /\ state \in PriorStates(cfg)
        /\ running = TRUE
        /\ pc = "mapper"
        /\ NoKeyHeld
        /\ NothingDrawn

(* Axis resolution: the axis names and the samples vary *)

ResolveFallbackNames == {"LeftStickY", "LeftStickX", "Tz", "RightStickY"}

ResolveConfigs ==
    {[DefaultConfig EXCEPT !.controls.joystick.pitch_axis = p,
                           !.controls.joystick.roll_axis = r,
                           !.controls.joystick.lift_axis = l,
                           !.controls.joystick.fallback_axes = fb] :
        p \in {"RightStickY", "Tz"}, r \in {"RightStickX", "RightStickY"},
        l \in {"RightZ", "LeftStickX"},
        fb \in SeqsUpTo(ResolveFallbackNames, MaxFallbacks)}

\* samples far above, just above and at the threshold of 0.01; RightStickX,
\* which no fallback list names, is at rest (0.0) instead of just above it
ResolveInputs ==
    {[InputStateDefault EXCEPT !.axes = m] :
        m \in {f \in MapOver({"Axis_RightStickY", "Axis_RightStickX",
                              "Axis_LeftStickY", "Axis_LeftStickX"},
                             {Fin(-1000), Zero, Fin(10), Fin(11)}) :
                 \A a \in DOMAIN f :
                     IF a = "Axis_RightStickX" THEN f[a] # Fin(11) ELSE f[a] # Zero}}

SpecResolve == MapperInit(ResolveConfigs, ResolveInputs) /\ [][MapperNext]_vars

(* The default fallback chain: the default configuration, the samples vary; *)
(* Axis_Unknown is gilrs::Axis::Unknown, the variant an axis outside the    *)
(* enum is reported as                                                      *)

ChainAxes ==
    {"Axis_RightStickY", "Axis_LeftStickY", "Axis_LeftStickX", "Axis_LeftZ",
     "Axis_Unknown"}

ChainInputs ==
    {[InputStateDefault EXCEPT !.axes = m] :
        m \in MapOver(ChainAxes, {Fin(-1000), Fin(10), Fin(500)})}

SpecChain == MapperInit({DefaultConfig}, ChainInputs) /\ [][MapperNext]_vars

(* Scaling, inversion and the keyboard: the gimbal block, the flags and the *)
(* keyboard contributions vary                                              *)

ScalingConfigs ==
    {[DefaultConfig EXCEPT !.gimbal.max_pitch = mp[1], !.gimbal.pitch_sensitivity = mp[2],
                           !.gimbal.max_roll = mr[1], !.gimbal.roll_sensitivity = mr[2],
                           !.gimbal.max_lift = ml[1], !.gimbal.lift_sensitivity = ml[2],
                           !.controls.keyboard_enabled = ke,
                           !.controls.joystick.enabled = je,
                           !.controls.joystick.invert_pitch = ip,
                           !.controls.joystick.invert_roll = ir,
                           !.controls.joystick.invert_lift = il] :
        mp \in {<<Fin(20 * Milli), One>>, <<Fin(20 * Milli), Fin(2 * Milli)>>, <<Zero, One>>},
        mr \in {<<Fin(20 * Milli), One>>, <<Fin(20 * Milli), PInf>>},
        ml \in {<<Fin(15 * Milli), One>>, <<Fin(-5 * Milli), One>>},
        ke \in BOOLEAN, je \in BOOLEAN,
        ip \in BOOLEAN, ir \in BOOLEAN, il \in BOOLEAN}

ScalingInputs ==
    {[InputStateDefault EXCEPT !.axes = m, !.keyboard_pitch = kp,
                               !.keyboard_roll = kr, !.keyboard_lift = kl] :
        m \in {f \in MapOver({"Axis_RightStickY", "Axis_RightStickX", "Axis_LeftStickY"},
                             {Fin(-1000), Fin(500)}) :
                 /\ "Axis_RightStickX" \in DOMAIN f => f["Axis_RightStickX"] = Fin(500)
                 /\ "Axis_LeftStickY" \in DOMAIN f => f["Axis_LeftStickY"] = Fin(-1000)},
        kp \in {Fin(-100), Zero, Fin(100)}, kr \in {Zero, Fin(100)},
        kl \in {Zero, Fin(-100)}}

SpecMapper == MapperInit(ScalingConfigs, ScalingInputs) /\ [][MapperNext]_vars

----------------------------------------------------------------------------
(* The gimbal view: App::draw_gimbal_visualization computes, from the       *)
(* stored demand, the height of each of the three scissor lifts and the     *)
(* projected point where it meets the upper plate                           *)

\* f64::to_radians: x * (pi / 180), pi / 180 taken as 0.01745
to_radians(x) ==
    IF x.k # "fin" THEN x ELSE Fin(RoundDiv(x.v * 1745, 100 * Milli))

\* std::f64::consts::PI
PI == Fin(3142)

\* the angle of sample i of the upper plate's perimeter: i * 2.0 * PI / 32
PerimeterAngle(i) == FDiv(FMul(FMul(Fin(i * Milli), Fin(2 * Milli)), PI), Fin(32 * Milli))

\* cos and sin at the angles of the three scissor lifts, 0, 120 and 240
\* degrees in radians, and at the quarter points of the perimeter
Cos(x) ==
    CASE x = to_radians(Fin(0)) -> One
      [] x = to_radians(Fin(120 * Milli)) -> Fin(-500)
      [] x = to_radians(Fin(240 * Milli)) -> Fin(-500)
      [] x = PerimeterAngle(8) -> Zero
      [] x = PerimeterAngle(16) -> Fin(-Milli)
      [] x = PerimeterAngle(24) -> Zero

Sin(x) ==
    CASE x = to_radians(Fin(0)) -> Zero
      [] x = to_radians(Fin(120 * Milli)) -> Fin(866)
      [] x = to_radians(Fin(240 * Milli)) -> Fin(-866)
      [] x = PerimeterAngle(8) -> One
      [] x = PerimeterAngle(16) -> Zero
      [] x = PerimeterAngle(24) -> Fin(-Milli)

platform_radius == Fin(100 * Milli)

base_height == Fin(-30 * Milli)

\* faulty variant: the base nominal height of 15 is left out
nominal_height_WithoutBase(st) == st.lift

nominal_height(st) == FAdd(Fin(15 * Milli), st.lift)

\* faulty variant: the height is scaled and enters the horizontal coordinate
to_isometric_SkewsHeight(x, y, z) ==
    <<FAdd(FMul(FSub(x, z), Fin(866)), FMul(y, Fin(500))),
      FAdd(FMul(FAdd(x, z), Fin(500)), FMul(y, Fin(866)))>>

\* the closure to_isometric: (iso_x, iso_y)
to_isometric(x, y, z) ==
    <<FMul(FSub(x, z), Fin(866)),
      FAdd(FMul(FAdd(x, z), Fin(500)), y)>>

scissor_positions ==
    <<[angle_deg |-> Fin(0), radius |-> FMul(platform_radius, Fin(750))],
      [angle_deg |-> Fin(120 * Milli), radius |-> FMul(platform_radius, Fin(750))],
      [angle_deg |-> Fin(240 * Milli), radius |-> FMul(platform_radius, Fin(750))]>>

Actuators == DOMAIN scissor_positions

angle_rad(i) == to_radians(scissor_positions[i].angle_deg)

base_x_3d(i) == FMul(scissor_positions[i].radius, Cos(angle_rad(i)))

base_y_3d(i) == FMul(scissor_positions[i].radius, Sin(angle_rad(i)))

\* faulty variant: pitch tilts about the wrong axis
pitch_effect_AlongX(st, i) ==
    FMul(FMul(FMul(FDiv(base_x_3d(i), platform_radius), to_radians(st.pitch)),
              platform_radius), Fin(500))

pitch_effect(st, i) ==
    FMul(FMul(FMul(FDiv(base_y_3d(i), platform_radius), to_radians(st.pitch)),
              platform_radius), Fin(500))

roll_effect(st, i) ==
    FMul(FMul(FMul(FDiv(base_x_3d(i), platform_radius), to_radians(st.roll)),
              platform_radius), Fin(500))

\* faulty variant: the lift is added to each actuator on top of the nominal height
scissor_height_3d_DoublesLift(st, i) ==
    FAdd(FAdd(FAdd(nominal_height(st), st.lift), pitch_effect(st, i)), roll_effect(st, i))

scissor_height_3d(st, i) ==
    FAdd(FAdd(nominal_height(st), pitch_effect(st, i)), roll_effect(st, i))

extension(st, i) == FSub(scissor_height_3d(st, i), nominal_height(st))

\* faulty variant: the extension is measured from the base nominal height 15
lift_color_AgainstBase(st, i) ==
    LET ext == FSub(scissor_height_3d(st, i), Fin(15 * Milli))
    IN  IF FLt(Fin(3 * Milli), ext) THEN "LightGreen"
        ELSE IF FLt(ext, Fin(-3 * Milli)) THEN "LightRed"
        ELSE "Yellow"

\* the colour of a scissor lift: LightGreen extended, LightRed retracted,
\* Yellow neutral
lift_color(st, i) ==
    IF FLt(Fin(3 * Milli), extension(st, i)) THEN "LightGreen"
    ELSE IF FLt(extension(st, i), Fin(-3 * Milli)) THEN "LightRed"
    ELSE "Yellow"

mid_height_3d(st, i) == FDiv(FAdd(base_height, scissor_height_3d(st, i)), Fin(2 * Milli))

diamond_half_width == FMul(FMul(platform_radius, Fin(1200)), Fin(500))

compression_factor(st, i) ==
    FDiv(FSub(scissor_height_3d(st, i), nominal_height(st)), nominal_height(st))

current_width(st, i) ==
    FMul(diamond_half_width, FSub(One, FMul(compression_factor(st, i), Fin(300))))

\* the vector upper_plate_points after the loop over the scissor lifts:
\* (upper_x, upper_y, scissor_height_3d) of each
upper_plate_points(st) ==
    [i \in Actuators |->
        LET upper == to_isometric(base_x_3d(i), scissor_height_3d(st, i), base_y_3d(i))
        IN  <<upper[1], upper[2], scissor_height_3d(st, i)>>]

RECURSIVE SumHeights(_, _)
SumHeights(pts, n) == IF n = 0 THEN Zero ELSE FAdd(SumHeights(pts, n - 1), pts[n][3])

\* faulty variant: the reference height is the highest actuator, not the mean
avg_height_TakesHighest(pts) ==
    LET top == CHOOSE i \in DOMAIN pts : \A j \in DOMAIN pts : FLe(pts[j][3], pts[i][3])
    IN  pts[top][3]

\* the mean of the heights stored in upper_plate_points
avg_height(pts) == FDiv(SumHeights(pts, Len(pts)), Fin(Len(pts) * Milli))

\* the perimeter samples the model evaluates: the quarter points of the 32
QuarterSamples == {0, 8, 16, 24}

x1_3d(i) == FMul(FMul(platform_radius, Fin(900)), Cos(PerimeterAngle(i)))

y1_3d(i) == FMul(FMul(platform_radius, Fin(900)), Sin(PerimeterAngle(i)))

\* the tilt terms at a point (x, y) of the plate: pitch_effect + roll_effect
TiltAt(st, x, y) ==
    FAdd(FMul(FMul(FMul(FDiv(y, platform_radius), to_radians(st.pitch)),
                   platform_radius), Fin(500)),
         FMul(FMul(FMul(FDiv(x, platform_radius), to_radians(st.roll)),
                   platform_radius), Fin(500)))

\* h1 of perimeter sample i, from the plate points pts of the frame
h1(st, pts, i) == FAdd(avg_height(pts), TiltAt(st, x1_3d(i), y1_3d(i)))

(* One demand the default configuration can produce, drawn once and again *)

\* samples at both ends, half way, near rest, and at 0.229, where the roll
\* of 4.58 degrees extends the actuator at 0 degrees by 3.0
SolveInputs ==
    {[InputStateDefault EXCEPT !.axes = m] :
        m \in MapOver({"Axis_RightStickY", "Axis_RightStickX", "Axis_RightZ"},
                      {Fin(-1000), Fin(-500), Fin(50), Fin(229), Fin(1000)})}

SolveInit ==
    \E inp \in SolveInputs :
        /\ config = DefaultConfig
        /\ input_state = inp
        /\ state = update(DefaultConfig, GimbalStateDefault, inp).state
        /\ running = TRUE
        /\ pc = "solve"
        /\ NoKeyHeld
        /\ NothingDrawn

\* faulty variant: the vector of plate points outlives the frame and grows
Draw_KeepsPoints ==
    /\ pc \in {"solve", "drawn", "redrawn"}
    /\ plate' = plate \o upper_plate_points(state)
    /\ pc' = IF pc = "solve" THEN "drawn" ELSE "redrawn"
    /\ UNCHANGED <<config, state, input_state, running, held, point, screen>>

\* terminal.draw calls draw_gimbal_visualization: a first frame, then further
\* frames of the same demand
Draw ==
    /\ pc \in {"solve", "drawn", "redrawn"}
    /\ plate' = upper_plate_points(state)
    /\ pc' = IF pc = "solve" THEN "drawn" ELSE "redrawn"
    /\ UNCHANGED <<config, state, input_state, running, held, point, screen>>

SolveNext == Draw

SpecSolve == SolveInit /\ [][SolveNext]_vars

Drawn == pc \in {"drawn", "redrawn"}

(* The projector applied to one point *)

ProjectCoords == {Fin(-75 * Milli), Fin(-37500), Zero, Fin(64950), Fin(100 * Milli)}

ProjectInit ==
    /\ config = DefaultConfig
    /\ state = GimbalStateDefault
    /\ input_state = InputStateDefault
    /\ running = TRUE
    /\ pc = "project"
    /\ NoKeyHeld
    /\ plate = <<>>
    /\ point \in ProjectCoords \X ProjectCoords \X ProjectCoords
    /\ screen = <<Zero, Zero>>

Project ==
    /\ pc = "project"
    /\ screen' = to_isometric(point[1], point[2], point[3])
    /\ pc' = "projected"
    /\ UNCHANGED <<config, state, input_state, running, held, plate, point>>

ProjectNext == Project

SpecProject == ProjectInit /\ [][ProjectNext]_vars

----------------------------------------------------------------------------
(* Vocabulary of the claims *)

Channels == {"pitch", "roll", "lift"}

AxisNameOf(cfg, ch) ==
    CASE ch = "pitch" -> cfg.controls.joystick.pitch_axis
      [] ch = "roll" -> cfg.controls.joystick.roll_axis
      [] ch = "lift" -> cfg.controls.joystick.lift_axis

InvertOf(cfg, ch) ==
    CASE ch = "pitch" -> cfg.controls.joystick.invert_pitch
      [] ch = "roll" -> cfg.controls.joystick.invert_roll
      [] ch = "lift" -> cfg.controls.joystick.invert_lift

SensitivityOf(cfg, ch) ==
    CASE ch = "pitch" -> cfg.gimbal.pitch_sensitivity
      [] ch = "roll" -> cfg.gimbal.roll_sensitivity
      [] ch = "lift" -> cfg.gimbal.lift_sensitivity

MaxOf(cfg, ch) ==
    CASE ch = "pitch" -> cfg.gimbal.max_pitch
      [] ch = "roll" -> cfg.gimbal.max_roll
      [] ch = "lift" -> cfg.gimbal.max_lift

KeyboardOf(input, ch) ==
    CASE ch = "pitch" -> input.keyboard_pitch
      [] ch = "roll" -> input.keyboard_roll
      [] ch = "lift" -> input.keyboard_lift

\* the sample of the axis a configured name stands for, if there is one
SampleOf(input, name) ==
    LET a == parse_axis_name(name)
    IN  IF a.some /\ a.val \in DOMAIN input.axes THEN Some(input.axes[a.val]) ELSE None

PrimaryPresent(cfg, input, ch) == SampleOf(input, AxisNameOf(cfg, ch)).some

Significant(x) == x.k = "inf" \/ (x.k = "fin" /\ (x.v > SignificanceThreshold \/ x.v < -SignificanceThreshold))

SignificantEntries(cfg, input) ==
    {i \in 1..Len(cfg.controls.joystick.fallback_axes) :
        LET smp == SampleOf(input, cfg.controls.joystick.fallback_axes[i])
        IN  smp.some /\ Significant(smp.val)}

SetMin(S) == CHOOSE m \in S : \A n \in S : m <= n

\* the value of the first significant fallback entry, 0 when there is none
FirstSignificant(cfg, input) ==
    IF SignificantEntries(cfg, input) = {} THEN Zero
    ELSE SampleOf(input, cfg.controls.joystick.fallback_axes[SetMin(SignificantEntries(cfg, input))]).val

\* the joystick contribution j of a channel: its resolved value after inversion
JoystickPart(cfg, input, ch) ==
    IF ~cfg.controls.joystick.enabled THEN Zero
    ELSE IF InvertOf(cfg, ch)
         THEN FNeg(get_joystick_axis_value(cfg, input, AxisNameOf(cfg, ch)))
         ELSE get_joystick_axis_value(cfg, input, AxisNameOf(cfg, ch))

\* the keyboard contribution k of a channel
KeyboardPart(cfg, input, ch) ==
    IF cfg.controls.keyboard_enabled THEN KeyboardOf(input, ch) ELSE Zero

\* clamp(x * sensitivity * max, -max, +max)
Limited(cfg, ch, x) ==
    LET m == MaxOf(cfg, ch)
        y == FMul(FMul(x, SensitivityOf(cfg, ch)), m)
    IN  IF FLt(y, FNeg(m)) THEN FNeg(m) ELSE IF FLt(m, y) THEN m ELSE y

Within(x, m) == FLe(FNeg(m), x) /\ FLe(x, m)

NonNegFinite(x) == x.k = "fin" /\ x.v >= 0

Updated == pc = "updated"

----------------------------------------------------------------------------
(* Claims *)

\* C1 (as claimed): with max values that are non-negative and finite, after any
\* sequence of update, handle_keyboard and reset calls every channel of the
\* stored demand lies within [-max, +max] of its channel.
C1_DemandWithinLimits ==
    (pc # "load_failed" /\ \A ch \in Channels : NonNegFinite(MaxOf(config, ch)))
        => \A ch \in Channels : Within(state[ch], MaxOf(config, ch))

\* C2: the demand update leaves depends only on the configuration and the input
\* snapshot: from every demand the controller may have held before the call,
\* update with this input returns, and leaves exactly the demand now stored.
C2_UpdateIgnoresPriorDemand ==
    Updated => \A s0 \in PriorStates(config) :
                  LET out == update(config, s0, input_state)
                  IN  ~out.panicked /\ out.state = state

\* C2 witness: update has run, the controller could have held two different
\* demands before it, and every channel now differs from both of them.
C2_Witness ==
    /\ Updated
    /\ Cardinality(PriorStates(config)) >= 2
    /\ \A s0 \in PriorStates(config), ch \in Channels : s0[ch] # state[ch]

\* C3: for each channel update stores clamp((j + k) * sensitivity * max, -max,
\* +max), j the joystick value after inversion (0 when the joystick is
\* disabled), k the keyboard contribution (0 when the keyboard is disabled).
C3_SumThenScaleThenClamp ==
    Updated => \A ch \in Channels :
                  state[ch] = Limited(config, ch,
                                      FAdd(JoystickPart(config, input_state, ch),
                                           KeyboardPart(config, input_state, ch)))

\* C3 witness: joystick and keyboard both contribute to pitch and the sum,
\* (0.5 + 0.1) * 1.0 * 20, is stored unclamped.
C3_Witness ==
    /\ Updated
    /\ JoystickPart(config, input_state, "pitch") = Fin(500)
    /\ KeyboardPart(config, input_state, "pitch") = Fin(100)
    /\ config.gimbal.pitch_sensitivity = One
    /\ state.pitch = Fin(12000)

\* C4: when a channel's primary axis is absent from the samples, its joystick
\* value is the value of the first fallback entry, in configured order, whose
\* sample is present with absolute value above 0.01, and 0 when there is none.
C4_FirstSignificantFallback ==
    Updated => \A ch \in Channels :
                  ~PrimaryPresent(config, input_state, ch) =>
                      /\ get_joystick_axis_value(config, input_state, AxisNameOf(config, ch))
                            = FirstSignificant(config, input_state)
                      /\ state[ch] = Limited(config, ch, FirstSignificant(config, input_state))

\* C4 witness: pitch's primary axis has no sample, the first fallback is present
\* at exactly 0.01, the second is significant, and pitch follows the second.
C4_Witness ==
    /\ Updated
    /\ ~PrimaryPresent(config, input_state, "pitch")
    /\ config.controls.joystick.fallback_axes = <<"LeftStickY", "LeftStickX">>
    /\ SampleOf(input_state, "LeftStickY") = Some(Fin(10))
    /\ SampleOf(input_state, "LeftStickX") = Some(Fin(-1000))
    /\ state.pitch = Fin(-20000)

NoFallbacks(cfg) == [cfg EXCEPT !.controls.joystick.fallback_axes = <<>>]

\* C5 (as claimed): a fallback axis is also consulted when the primary axis is
\* present but below the significance threshold: the channel then takes the
\* first significant fallback.
C5_FallbackWhenPrimaryInsignificant ==
    Updated => \A ch \in Channels :
                  (/\ PrimaryPresent(config, input_state, ch)
                   /\ ~Significant(SampleOf(input_state, AxisNameOf(config, ch)).val)
                   /\ SignificantEntries(config, input_state) # {})
                      => state[ch] = Limited(config, ch, FirstSignificant(config, input_state))

\* C5 (amended): a fallback axis is consulted only when the primary axis is
\* unavailable; while the primary axis has a sample, that sample is the
\* channel's value, also below the threshold, and the fallback list has no
\* effect on the channel.
C5_FallbackOnlyWhenPrimaryAbsent ==
    Updated => \A ch \in Channels :
                  /\ PrimaryPresent(config, input_state, ch) =>
                        state[ch] = update(NoFallbacks(config), state, input_state).state[ch]
                  /\ ~PrimaryPresent(config, input_state, ch) =>
                        state[ch] = Limited(config, ch, FirstSignificant(config, input_state))

\* C5 witness: roll's primary axis is present at 0.01, a fallback is
\* significant, and roll is the primary's 0.01 * 20.
C5_Witness ==
    /\ Updated
    /\ SampleOf(input_state, AxisNameOf(config, "roll")) = Some(Fin(10))
    /\ SignificantEntries(config, input_state) # {}
    /\ state.roll = Fin(200)

TogglePitchInversion(cfg) ==
    [cfg EXCEPT !.controls.joystick.invert_pitch = ~cfg.controls.joystick.invert_pitch]

\* C6: toggling invert_pitch negates the joystick contribution to pitch, keeps
\* the keyboard contribution to pitch, and leaves roll and lift as they are.
C6_InvertPitchOnlyNegatesJoystickPitch ==
    Updated =>
        LET other == update(TogglePitchInversion(config), state, input_state)
        IN  /\ ~other.panicked
            /\ other.state.pitch =
                  Limited(config, "pitch",
                          FAdd(FNeg(JoystickPart(config, input_state, "pitch")),
                               KeyboardPart(config, input_state, "pitch")))
            /\ other.state.roll = state.roll
            /\ other.state.lift = state.lift

\* C6 witness: pitch is resolved from a fallback axis at -1.0 and inverted, the
\* keyboard adds -0.1, and the stored pitch is (1.0 - 0.1) * 20.
C6_Witness ==
    /\ Updated
    /\ config.controls.joystick.invert_pitch
    /\ ~PrimaryPresent(config, input_state, "pitch")
    /\ JoystickPart(config, input_state, "pitch") = Fin(1000)
    /\ KeyboardPart(config, input_state, "pitch") = Fin(-100)
    /\ config.gimbal.pitch_sensitivity = One
    /\ state.pitch = Fin(18000)
    /\ state.roll # Zero

\* C7 (as claimed): with no axis sample and the keyboard disabled, update
\* yields the demand (0, 0, 0) for any configuration.
C7_NoInputGivesZeroDemand ==
    (pc \in {"updated", "panicked"} /\ DOMAIN input_state.axes = {}
        /\ ~config.controls.keyboard_enabled)
        => (Updated /\ state = GimbalStateDefault)

AbsentAxisName == "DPadX"

KnownAxisNames ==
    {"LeftStickX", "LeftStickY", "LeftZ", "RightStickX", "RightStickY", "RightZ",
     "DPadX", "DPadY"}

AsAbsent(name) == IF name \in KnownAxisNames THEN name ELSE AbsentAxisName

\* the configuration with every unresolvable axis name replaced by the name of
\* an axis that has no sample
UnresolvableAsAbsent(cfg) ==
    [cfg EXCEPT !.controls.joystick.pitch_axis = AsAbsent(@),
                !.controls.joystick.roll_axis = AsAbsent(@),
                !.controls.joystick.lift_axis = AsAbsent(@),
                !.controls.joystick.fallback_axes = [i \in DOMAIN @ |-> AsAbsent(@[i])]]

\* C8: an axis name parse_axis_name cannot resolve is treated exactly like an
\* axis absent from the samples: update returns, with the demand it gives when
\* each such name is replaced by the name of an axis that has no sample.
C8_UnresolvableNameIsAbsentAxis ==
    (pc \in {"updated", "panicked"} /\ SampleOf(input_state, AbsentAxisName) = None)
        => /\ Updated
           /\ ~update(UnresolvableAsAbsent(config), state, input_state).panicked
           /\ state = update(UnresolvableAsAbsent(config), state, input_state).state

\* C8 witness: pitch's primary name and the first fallback name do not resolve,
\* and pitch is taken from the fallback entry after them.
C8_Witness ==
    /\ Updated
    /\ config.controls.joystick.pitch_axis \notin KnownAxisNames
    /\ Len(config.controls.joystick.fallback_axes) = 2
    /\ config.controls.joystick.fallback_axes[1] \notin KnownAxisNames
    /\ SampleOf(input_state, config.controls.joystick.fallback_axes[2]) = Some(Fin(-1000))
    /\ state.pitch = Fin(-20000)

\* C9 (as claimed): update completes and returns for every input snapshot and
\* every configuration the configuration loader accepts.
C9_UpdateNeverPanics == pc # "panicked"

ValidGimbalConfig(cfg) ==
    /\ \A ch \in Channels : NonNegFinite(MaxOf(cfg, ch))
    /\ \A ch \in Channels : NonNegFinite(SensitivityOf(cfg, ch))

\* C10 (as claimed): a controller only ever runs with a configuration whose max
\* values and sensitivities are non-negative finite numbers; a configuration
\* file that violates this is rejected at load and never reaches update (here:
\* whenever update has panicked or has stored a demand other than the initial
\* one, the configuration is valid).
C10_OnlyValidConfigRuns ==
    (pc # "load_failed" /\ (pc = "panicked" \/ state # GimbalStateDefault))
        => ValidGimbalConfig(config)

----------------------------------------------------------------------------
(* The keyboard *)

PositiveKey(ch) ==
    CASE ch = "pitch" -> "w"
      [] ch = "roll" -> "d"
      [] ch = "lift" -> "r"

NegativeKey(ch) ==
    CASE ch = "pitch" -> "s"
      [] ch = "roll" -> "a"
      [] ch = "lift" -> "f"

\* C11 (as claimed): through any sequence of press and release events of the
\* six mapped keys, with the keyboard enabled, a channel's keyboard
\* contribution is +keyboard_step while only its positive key is down,
\* -keyboard_step while only its negative key is down, and 0 while neither is.
C11_ContributionFollowsHeldKeys ==
    (pc = "loop" /\ config.controls.keyboard_enabled) =>
        \A ch \in Channels :
            LET k == KeyboardOf(input_state, ch)
                step == config.controls.keyboard_step
                pos == PositiveKey(ch) \in held
                neg == NegativeKey(ch) \in held
            IN  /\ (pos /\ ~neg) => k = step
                /\ (neg /\ ~pos) => k = FNeg(step)
                /\ (~pos /\ ~neg) => k = Zero

\* the channel a mapped key drives and the sign it gives
ChannelOfKey(c) ==
    CASE c \in {"w", "s"} -> "pitch"
      [] c \in {"a", "d"} -> "roll"
      [] c \in {"r", "f"} -> "lift"

SignedStep(cfg, c) ==
    IF c \in {"w", "d", "r"} THEN cfg.controls.keyboard_step
    ELSE FNeg(cfg.controls.keyboard_step)

\* C12 (as claimed): in the running application with the keyboard enabled, the
\* press of a mapped key leaves its channel's keyboard contribution at the
\* key's value: W +keyboard_step and S -keyboard_step on pitch, D + and A - on
\* roll, R + and F - on lift.
C12_PressSetsContribution ==
    [][\A c \in MappedKeys :
          (config.controls.keyboard_enabled /\ PollKeyEvent("Press", Char(c)))
              => KeyboardOf(input_state', ChannelOfKey(c)) = SignedStep(config, c)]_vars

----------------------------------------------------------------------------
(* The default fallback chain *)

\* the gilrs::Axis a device channel of this name is reported as: the variant
\* of that name, Axis::Unknown when the enum has none
GilrsAxisOf(name) ==
    CASE name = "LeftStickX" -> "Axis_LeftStickX"
      [] name = "LeftStickY" -> "Axis_LeftStickY"
      [] name = "LeftZ" -> "Axis_LeftZ"
      [] name = "RightStickX" -> "Axis_RightStickX"
      [] name = "RightStickY" -> "Axis_RightStickY"
      [] name = "RightZ" -> "Axis_RightZ"
      [] name = "DPadX" -> "Axis_DPadX"
      [] name = "DPadY" -> "Axis_DPadY"
      [] OTHER -> "Axis_Unknown"

\* the sample the input state holds for the device channel of this name
DeviceSample(input, name) == AxesGet(input.axes, GilrsAxisOf(name))

\* entry i of the chain is the first whose device sample exceeds 0.01
FirstSignificantDeviceEntry(cfg, input, i) ==
    LET chain == cfg.controls.joystick.fallback_axes
        sig(j) == DeviceSample(input, chain[j]).some
                  /\ Significant(DeviceSample(input, chain[j]).val)
    IN  sig(i) /\ \A j \in 1..(i - 1) : ~sig(j)

\* C13 (as claimed): under the default configuration each of the six fallback
\* entries LeftStickY, LeftStickX, LeftZ, Tz, Ty, Tx can supply a channel:
\* when the channel's primary axis is absent and the entry is the first of the
\* chain whose sample exceeds 0.01, the channel's joystick value is that
\* sample.
C13_EveryDefaultFallbackSupplies ==
    (Updated /\ config = DefaultConfig) =>
        \A ch \in Channels, i \in 1..Len(config.controls.joystick.fallback_axes) :
            (/\ ~PrimaryPresent(config, input_state, ch)
             /\ FirstSignificantDeviceEntry(config, input_state, i))
                => get_joystick_axis_value(config, input_state, AxisNameOf(config, ch))
                    = DeviceSample(input_state, config.controls.joystick.fallback_axes[i]).val

----------------------------------------------------------------------------
(* The gimbal view *)

Height(i) == plate[i][3]

\* C14: with demand (0, 0, 0) each of the three actuators has the same
\* extension height, the base nominal height 15.0.
C14_ZeroDemandGivesNominalHeight ==
    (Drawn /\ state = GimbalStateDefault) =>
        /\ DOMAIN plate = 1..3
        /\ \A i \in DOMAIN plate : Height(i) = Fin(15 * Milli)

\* C14 witness: the zero demand has been drawn, with three plate points.
C14_Witness ==
    /\ Drawn
    /\ state = GimbalStateDefault
    /\ Len(plate) = 3

C16_ActuatorValuesFinite ==
    (Drawn /\ \A ch \in Channels :
                  IsFinite(state[ch]) /\ Within(state[ch], MaxOf(config, ch))) =>
        \A i \in Actuators :
            /\ \A n \in 1..3 : IsFinite(plate[i][n])
            /\ IsFinite(extension(state, i))
            /\ IsFinite(mid_height_3d(state, i))
            /\ IsFinite(compression_factor(state, i))
            /\ IsFinite(current_width(state, i))

C18_ProjectorSymmetryAndHeight ==
    pc = "projected" =>
        LET flat == to_isometric(point[1], Zero, point[3])
            mirrored == to_isometric(Zero, Zero, point[1])
        IN  /\ point = <<Zero, Zero, Zero>> => screen = <<Zero, Zero>>
            /\ (point[2] = Zero /\ point[3] = Zero) =>
                  /\ mirrored[2] = screen[2]
                  /\ mirrored[1] = FNeg(screen[1])
            /\ screen[1] = flat[1]
            /\ screen[2] = FAdd(flat[2], point[2])

\* C18 witness: the point (100, -37.5, 0) is projected to (86.6, 12.5).
C18_Witness ==
    /\ pc = "projected"
    /\ point = <<Fin(100 * Milli), Fin(-37500), Zero>>
    /\ screen = <<Fin(86600), Fin(12500)>>

----------------------------------------------------------------------------
(* Buttons *)

ButtonEvents == {ev \in GilrsEvents : ev.type \in {"ButtonPressed", "ButtonReleased"}}

ButtonSamples == MapOver(AppButtons, BOOLEAN)

\* C19: button events never change the demand.  Wherever the loop stands, a
\* button press or release taken by the next tick changes, of the input
\* state, the button map only, and update gives the same pitch, roll and lift
\* for the input with that event applied, for the input as it is, and for the
\* input with any other button samples.
C19_ButtonsDoNotChangeDemand ==
    pc \in {"loop", "tick"} =>
        /\ \A ev \in ButtonEvents :
              LET after == ProcessEvents(input_state, <<ev>>, 1)
              IN  /\ after = [input_state EXCEPT !.buttons = after.buttons]
                  /\ after.buttons # input_state.buttons
                        => after.buttons[ev.button] = (ev.type = "ButtonPressed")
                  /\ update(config, state, after) = update(config, state, input_state)
        /\ \A b \in ButtonSamples :
              update(config, state, [input_state EXCEPT !.buttons = b])
                  = update(config, state, input_state)

\* C19 witness: the South button is held in the button map while an axis
\* sample drives a demand that is not zero.
C19_Witness ==
    /\ pc = "loop"
    /\ "South" \in DOMAIN input_state.buttons
    /\ input_state.buttons["South"]
    /\ DOMAIN input_state.axes # {}
    /\ state.pitch # Zero

----------------------------------------------------------------------------
(* The primary axis *)

\* C20: when a channel's primary axis name resolves and the axis has a sample,
\* the channel's joystick value is that sample, also when it is 0 or no more
\* than 0.01 in absolute value, whatever the fallback list and the samples of
\* its axes are; the demand stored for the channel is that sample scaled and
\* limited.
C20_PresentPrimaryIsTheValue ==
    Updated => \A ch \in Channels :
                  PrimaryPresent(config, input_state, ch) =>
                      LET primary == SampleOf(input_state, AxisNameOf(config, ch)).val
                      IN  /\ get_joystick_axis_value(config, input_state,
                                                    AxisNameOf(config, ch)) = primary
                          /\ JoystickPart(config, input_state, ch) = primary
                          /\ state[ch] = Limited(config, ch, primary)

\* C20 witness: roll's primary axis rests at 0.0 and pitch's is at 0.01 while
\* the first fallback entry has a sample of -1.0; roll is 0 and pitch 0.2.
C20_Witness ==
    /\ Updated
    /\ SampleOf(input_state, AxisNameOf(config, "roll")) = Some(Zero)
    /\ SampleOf(input_state, AxisNameOf(config, "pitch")) = Some(Fin(10))
    /\ Len(config.controls.joystick.fallback_axes) >= 1
    /\ SampleOf(input_state, config.controls.joystick.fallback_axes[1]) = Some(Fin(-1000))
    /\ state.roll = Zero
    /\ state.pitch = Fin(200)

----------------------------------------------------------------------------
(* Lift and the classification of the actuators *)

\* the demand with the same tilt and no lift
Level(st) == [st EXCEPT !.lift = Zero]

LiftDemands == {update(DefaultConfig, GimbalStateDefault, inp).state.lift : inp \in SolveInputs}

\* C22: an actuator is classified from extension = height - nominal_height
\* with fixed thresholds: extended (LightGreen) exactly when extension > 3,
\* retracted (LightRed) exactly when extension < -3, neutral (Yellow)
\* otherwise, +3 and -3 included; the class is the same at every lift.
C22_ClassifiedByExtension ==
    Drawn =>
        \A i \in Actuators :
            LET ext == FSub(Height(i), nominal_height(state))
            IN  /\ lift_color(state, i) = "LightGreen" <=> FLt(Fin(3 * Milli), ext)
                /\ lift_color(state, i) = "LightRed" <=> FLt(ext, Fin(-3 * Milli))
                /\ lift_color(state, i) = "Yellow"
                      <=> (~FLt(Fin(3 * Milli), ext) /\ ~FLt(ext, Fin(-3 * Milli)))
                /\ \A l \in LiftDemands :
                      lift_color([state EXCEPT !.lift = l], i) = lift_color(state, i)

\* C22 witness: with lift at -7.5 the actuator at 0 degrees is extended by
\* exactly 3.0 and neutral, the one at 120 degrees is extended and the one at
\* 240 degrees retracted.
C22_Witness ==
    /\ Drawn
    /\ state.lift = Fin(-7500)
    /\ FSub(Height(1), nominal_height(state)) = Fin(3 * Milli)
    /\ lift_color(state, 1) = "Yellow"
    /\ lift_color(state, 2) = "LightGreen"
    /\ lift_color(state, 3) = "LightRed"

----------------------------------------------------------------------------
(* The perimeter of the upper plate *)

\* the plane through the three attachment points, at the point (x, y)
PlaneAt(st, x, y) == FAdd(nominal_height(st), TiltAt(st, x, y))

Near(x, y, tol) == IsFinite(x) /\ IsFinite(y) /\ FLe(FAbs(FSub(x, y)), tol)

\* the rounding the mean of three rounded heights can carry
RoundingError == Fin(50)

\* C23 (as claimed): the average of the three actuator heights equals
\* nominal_height for every demand, and a perimeter sample computed from that
\* average lies on the plane of the three attachment points.
C23_AverageIsNominal ==
    Drawn =>
        /\ avg_height(plate) = nominal_height(state)
        /\ \A i \in QuarterSamples :
              h1(state, plate, i) = PlaneAt(state, x1_3d(i), y1_3d(i))

\* C23 (amended): the average of the three actuator heights equals
\* nominal_height up to the rounding of the arithmetic, and a perimeter sample
\* computed from it lies on the plane of the attachment points up to that
\* rounding.
C23_AverageIsNominalUpToRounding ==
    Drawn =>
        /\ Near(avg_height(plate), nominal_height(state), RoundingError)
        /\ \A i \in QuarterSamples :
              Near(h1(state, plate, i), PlaneAt(state, x1_3d(i), y1_3d(i)), RoundingError)

\* C23 witness: pitch and roll both tilt the plate, the three heights differ
\* by more than 5, and their average misses nominal_height by rounding only.
C23_Witness ==
    /\ Drawn
    /\ state.pitch = Fin(-20 * Milli)
    /\ state.roll = Fin(-10 * Milli)
    /\ FLt(Fin(5 * Milli), FSub(Height(3), Height(1)))
    /\ FLt(Fin(5 * Milli), FSub(Height(3), Height(2)))
    /\ avg_height(plate) # nominal_height(state)
    /\ Near(avg_height(plate), nominal_height(state), RoundingError)

----------------------------------------------------------------------------
(* The fallback list is shared by the three channels *)

NoPrimaryPresent(cfg, input) == \A ch \in Channels : ~PrimaryPresent(cfg, input, ch)

\* C24: with the joystick enabled and no channel's primary axis present, pitch,
\* roll and lift all resolve to one and the same joystick value before
\* inversion, the first significant fallback sample or 0, and each channel
\* stores that value under its own sensitivity and limit.
C24_OneFallbackDrivesAllChannels ==
    (Updated /\ config.controls.joystick.enabled /\ NoPrimaryPresent(config, input_state)) =>
        LET shared == get_joystick_axis_value(config, input_state, AxisNameOf(config, "pitch"))
        IN  /\ shared = FirstSignificant(config, input_state)
            /\ \A ch \in Channels :
                  /\ get_joystick_axis_value(config, input_state, AxisNameOf(config, ch)) = shared
                  /\ state[ch] = Limited(config, ch,
                                         FAdd(IF InvertOf(config, ch) THEN FNeg(shared) ELSE shared,
                                              KeyboardPart(config, input_state, ch)))

\* C24 witness: no primary axis has a sample, the first fallback LeftStickY is
\* at -1.0, and pitch, roll and lift are all driven to their negative limits.
C24_Witness ==
    /\ Updated
    /\ config.controls.joystick.enabled
    /\ NoPrimaryPresent(config, input_state)
    /\ config.controls.joystick.fallback_axes = <<"LeftStickY", "LeftStickX">>
    /\ SampleOf(input_state, "LeftStickY") = Some(Fin(-1000))
    /\ SampleOf(input_state, "LeftStickX") = Some(Fin(11))
    /\ state = [pitch |-> Fin(-20000), roll |-> Fin(-20000), lift |-> Fin(-15000)]

----------------------------------------------------------------------------
(* Axis samples are last-value-wins and survive a disconnect *)

\* the value of the last AxisChanged event for axis a among the first i events
\* of a batch, if there is one
RECURSIVE LastChange(_, _, _)
LastChange(batch, a, i) ==
    IF i = 0 THEN None
    ELSE IF batch[i].type = "AxisChanged" /\ batch[i].axis = a
         THEN Some(batch[i].value)
         ELSE LastChange(batch, a, i - 1)

ConnectionEvents == {ev \in GilrsEvents : ev.type \in {"Connected", "Disconnected"}}

\* C25: whatever batch of gamepad events a tick drains, the sample it leaves
\* for an axis is the value of the batch's last AxisChanged event for that axis
\* and the earlier sample when the batch has none; no axis loses its sample;
\* Connected and Disconnected events leave the samples as they are, so the
\* demand computed after a disconnect is the one the last samples give.
C25_LastSampleWinsAndPersists ==
    (pc \in {"loop", "tick"}) =>
        /\ \A batch \in SeqsUpTo(GilrsEvents, 2) :
              LET after == ProcessEvents(input_state, batch, 1)
              IN  /\ DOMAIN input_state.axes \subseteq DOMAIN after.axes
                  /\ \A a \in AppAxes :
                        LET last == LastChange(batch, a, Len(batch))
                        IN  AxesGet(after.axes, a)
                              = IF last.some THEN last ELSE AxesGet(input_state.axes, a)
        /\ \A ev \in ConnectionEvents :
              LET after == ProcessEvents(input_state, <<ev>>, 1)
              IN  /\ after.axes = input_state.axes
                  /\ update(config, state, after) = update(config, state, input_state)

\* C25 witness: a tick has stored the sample -1.0 for LeftStickY and computed a
\* full negative pitch from it, a state in which a Disconnected event may
\* arrive next.
C25_Witness ==
    /\ pc = "loop"
    /\ config = DefaultConfig
    /\ AxesGet(input_state.axes, "Axis_LeftStickY") = Some(Fin(-1000))
    /\ "South" \in DOMAIN input_state.buttons
    /\ state.pitch = Fin(-20000)

----------------------------------------------------------------------------
(* The reset key *)

PressReset == PollKeyEvent("Press", Char("r"))

NoKeyboardContribution(input) ==
    [input EXCEPT !.keyboard_pitch = Zero, !.keyboard_roll = Zero, !.keyboard_lift = Zero]

\* two calls of update give the same demand: both return, with equal demands,
\* or neither returns
SameDemand(a, b) == a.panicked = b.panicked /\ (~a.panicked => a.state = b.state)

\* what a press of 'r' sets and what it leaves alone
ResetEffect ==
    /\ state' = GimbalStateDefault
    /\ input_state'.keyboard_pitch = Zero
    /\ input_state'.keyboard_roll = Zero
    /\ input_state'.keyboard_lift = Zero
    /\ config' = config
    /\ input_state'.axes = input_state.axes
    /\ input_state'.buttons = input_state.buttons

\* C26 (as claimed): a press of 'r' sets the demand to (0, 0, 0) and the three
\* keyboard contributions to 0 and leaves configuration, axis and button
\* samples unchanged, and the update of the next tick gives the same demand as
\* an update without the reset.
C26_ResetThenSameDemandAsWithout ==
    [][PressReset =>
          /\ ResetEffect
          /\ SameDemand(update(config', state', input_state'),
                        update(config, state, input_state))]_vars

\* C26 (amended): a press of 'r' sets the demand to (0, 0, 0) and the three
\* keyboard contributions to 0 and leaves configuration, axis and button
\* samples unchanged, and the update of the next tick gives the demand an
\* update without the reset gives once the keyboard contributions are 0.
C26_ResetThenDemandOfAxisSamples ==
    [][PressReset =>
          /\ ResetEffect
          /\ SameDemand(update(config', state', input_state'),
                        update(config, state, NoKeyboardContribution(input_state)))]_vars

\* C26 witness: 'r' has been pressed after a tick that drove pitch from the
\* LeftStickY sample -1.0: the demand is (0, 0, 0) while the sample is still
\* stored, and the next update gives pitch -20 again.
C26_Witness ==
    /\ pc = "loop"
    /\ config = DefaultConfig
    /\ state = GimbalStateDefault
    /\ input_state = NoKeyboardContribution(input_state)
    /\ AxesGet(input_state.axes, "Axis_LeftStickY") = Some(Fin(-1000))
    /\ update(config, state, input_state).state.pitch = Fin(-20000)

----------------------------------------------------------------------------
(* A disabled input source *)

\* axis samples and keyboard contributions other than the stored ones
OtherAxisSamples == MapOver({"Axis_RightStickY", "Axis_LeftStickY"}, {Fin(-1000), Fin(500)})

OtherContributions == {Fin(-100), Zero, Fin(100)}

\* what the update that has run gave: the stored demand, or a panic
Outcome == [panicked |-> pc = "panicked", state |-> state]

\* C27: with joystick.enabled false, update gives the same demand whatever the
\* axis samples are; with keyboard_enabled false, handle_keyboard returns the
\* input state unchanged for every key, pressed or released, and update gives
\* the same demand whatever keyboard contributions are stored.
C27_DisabledSourceHasNoEffect ==
    (pc # "mapper") =>
        /\ ~config.controls.joystick.enabled =>
              \A m \in OtherAxisSamples :
                  SameDemand(update(config, state, [input_state EXCEPT !.axes = m]), Outcome)
        /\ ~config.controls.keyboard_enabled =>
              /\ \A key \in KeysChars, pressed \in BOOLEAN :
                    handle_keyboard(config, input_state, key, pressed) = input_state
              /\ \A kp \in OtherContributions, kr \in OtherContributions,
                       kl \in OtherContributions :
                    SameDemand(update(config, state,
                                      [input_state EXCEPT !.keyboard_pitch = kp,
                                                          !.keyboard_roll = kr,
                                                          !.keyboard_lift = kl]),
                               Outcome)

\* C27 witness: both sources are disabled while the pitch axis holds -1.0 and
\* the keyboard pitch contribution 0.1 is stored, and the demand is (0, 0, 0)
\* under limits of 20, 20 and 15.
C27_Witness ==
    /\ Updated
    /\ ~config.controls.joystick.enabled
    /\ ~config.controls.keyboard_enabled
    /\ config.gimbal.max_pitch = Fin(20 * Milli)
    /\ config.gimbal.pitch_sensitivity = One
    /\ SampleOf(input_state, "RightStickY") = Some(Fin(-1000))
    /\ input_state.keyboard_pitch = Fin(100)
    /\ state = GimbalStateDefault

----------------------------------------------------------------------------
(* Leaving the main loop *)

PressQuit == PollKeyEvent("Press", Char("q")) \/ PollKeyEvent("Press", Esc)

\* C28: running is true at the start; a step clears it only if the step is a
\* press of 'q' or Esc, and the step of no other key event, press, release or
\* repeat, clears it; once false it stays false; the condition check that
\* finds it false leaves the loop, and the loop is left that way only; a tick
\* ends the loop otherwise only by a panic of update that the configuration
\* alone causes, whatever gamepad events the tick drained.
C28_OnlyQuitKeysStopTheLoop ==
    /\ running = TRUE
    /\ [][/\ (running /\ ~running') =>
                /\ PressQuit
                /\ \A kind \in KeyEventKinds, key \in KeyCodes :
                      PollKeyEvent(kind, key) => (kind = "Press" /\ key \in {Char("q"), Esc})
          /\ ~running => ~running'
          /\ (~running /\ pc = "loop") => pc' = "done"
          /\ pc' = "done" => (~running /\ pc \in {"loop", "done"})
          /\ (pc # "panicked" /\ pc' = "panicked")
                => update(config, state, input_state).panicked]_vars

\* C28 witness: the loop has been left with running false after ticks that
\* moved the demand.
C28_Witness ==
    /\ pc = "done"
    /\ ~running
    /\ state.pitch = Fin(-20000)

====
